---- MODULE Spec2Model ----
(***************************************************************************)
(* Model of scripts/generate_mod.py, the Bannerlord mod generator.         *)
(*                                                                         *)
(* Text is a sequence of one-character strings, so that str.replace, the   *)
(* f-strings and the file names built from the mod id are computed on the  *)
(* characters.  A path is a sequence of components (each a text).          *)
(*                                                                         *)
(* Spec    : one invocation of main() after another on the same file tree. *)
(* SpecRP  : replace_placeholders as a pure function; the six replacements *)
(*           are applied one at a time, in any order, next to the result   *)
(*           the code computes.                                            *)
(***************************************************************************)
EXTENDS Naturals, Sequences, FiniteSets, TLC

VARIABLES
    pc,          \* position of the run: main, mkdirs, loop, readme, done, exit1, crashed
    argv,        \* the command line: what each option was given as, None if absent
    tdirExists,  \* whether the templates directory exists
    present,     \* names of the template files that exist in the templates directory
    config,      \* the config dict built by main
    idx,         \* position of the loop over TEMPLATES.items()
    dirs,        \* file tree: the set of paths that are directories
    files,       \* file tree: path -> text of the regular file at that path
    dirs0,       \* the directories before the first run
    files0,      \* the files before the first run
    stdout,      \* what was printed, in order
    crashAt,     \* the call that raised, when pc = "crashed"
    run,         \* number of the current invocation
    snapDirs,    \* directories when the previous invocation ended
    snapFiles,   \* files when the previous invocation ended
    tmpl,        \* SpecRP: the template text
    rcfg,        \* SpecRP: the config passed to replace_placeholders
    applied,     \* SpecRP: the placeholders substituted so far
    cur,         \* SpecRP: the text after the substitutions in applied
    inOrder      \* SpecRP: whether the substitutions so far followed the code's order

genvars == <<pc, argv, tdirExists, present, config, idx, dirs, files, dirs0,
             files0, stdout, crashAt, run, snapDirs, snapFiles>>
rpvars == <<tmpl, rcfg, applied, cur, inOrder>>
vars == <<pc, argv, tdirExists, present, config, idx, dirs, files, dirs0,
          files0, stdout, crashAt, run, snapDirs, snapFiles, tmpl, rcfg,
          applied, cur, inOrder>>

----------------------------------------------------------------------------
(* Bounds *)

\* SpecRP: a template text is the concatenation of at most MaxPieces pieces.
MaxPieces == 2

\* Spec: number of invocations of the generator on the same file tree.
MaxRuns == 2

----------------------------------------------------------------------------
(* Text *)

\* Python's None, distinct from every text
None == <<"None">>

\* whether old occurs in s at position i
OccursAt(s, old, i) ==
    /\ i >= 1
    /\ i + Len(old) - 1 <= Len(s)
    /\ SubSeq(s, i, i + Len(old) - 1) = old

Contains(s, old) == \E i \in 1..Len(s) : OccursAt(s, old, i)

\* str.replace(old, new, 1): the first occurrence only
RECURSIVE str_replace_first(_, _, _)
str_replace_first(s, old, new) ==
    IF Len(s) < Len(old) THEN s
    ELSE IF SubSeq(s, 1, Len(old)) = old
         THEN new \o SubSeq(s, Len(old) + 1, Len(s))
         ELSE <<Head(s)>> \o str_replace_first(Tail(s), old, new)

\* str.replace(old, new) for a nonempty old: the non-overlapping occurrences
\* found scanning from the left are replaced, in one pass.
RECURSIVE str_replace(_, _, _)
str_replace(s, old, new) ==
    IF Len(s) < Len(old) THEN s
    ELSE IF SubSeq(s, 1, Len(old)) = old
         THEN new \o str_replace(SubSeq(s, Len(old) + 1, Len(s)), old, new)
         ELSE <<Head(s)>> \o str_replace(Tail(s), old, new)

\* the parts of s between the occurrences of tok, found from the left
RECURSIVE SplitAcc(_, _, _)
SplitAcc(s, tok, acc) ==
    IF Len(s) < Len(tok) THEN <<acc \o s>>
    ELSE IF SubSeq(s, 1, Len(tok)) = tok
         THEN <<acc>> \o SplitAcc(SubSeq(s, Len(tok) + 1, Len(s)), tok, <<>>)
         ELSE SplitAcc(Tail(s), tok, acc \o <<Head(s)>>)

SplitOn(s, tok) == SplitAcc(s, tok, <<>>)

----------------------------------------------------------------------------
(* replace_placeholders *)

TokModId == <<"$","{","M","o","d","I","d","}">>
TokModName == <<"$","{","M","o","d","N","a","m","e","}">>
TokModNamespace == <<"$","{","M","o","d","N","a","m","e","s","p","a","c","e","}">>
TokAuthor == <<"$","{","A","u","t","h","o","r","}">>
TokVersion == <<"$","{","V","e","r","s","i","o","n","}">>
TokModDescription == <<"$","{","M","o","d","D","e","s","c","r","i","p","t","i","o","n","}">>

DefaultDescription == <<"A"," ","B","a","n","n","e","r","l","o","r","d"," ","m","o","d">>

\* the keys with the closing brace of "${ModName}" left out
PlaceholderOrder_unclosed_key ==
    <<TokModId, <<"$","{","M","o","d","N","a","m","e">>, TokModNamespace, TokAuthor,
      TokVersion, TokModDescription>>

\* the keys of the replacements dict, in insertion order
PlaceholderOrder ==
    <<TokModId, TokModName, TokModNamespace, TokAuthor, TokVersion, TokModDescription>>

Placeholders == {PlaceholderOrder[k] : k \in 1..Len(PlaceholderOrder)}

\* config.get("description", "")
DescriptionOf_empty_default(cfg) ==
    IF "description" \in DOMAIN cfg THEN cfg.description ELSE <<>>

\* config.get("description", "A Bannerlord mod")
DescriptionOf(cfg) ==
    IF "description" \in DOMAIN cfg THEN cfg.description ELSE DefaultDescription

\* the replacements dict: placeholder -> value
replacements(cfg, placeholder) ==
    IF placeholder = TokModId THEN cfg.mod_id
    ELSE IF placeholder = TokModName THEN cfg.mod_name
    ELSE IF placeholder = TokModNamespace THEN cfg.namespace
    ELSE IF placeholder = TokAuthor THEN cfg.author
    ELSE IF placeholder = TokVersion THEN cfg.version
    ELSE DescriptionOf(cfg)

\* the loop "for placeholder, value in replacements.items()" from entry k on
RECURSIVE ReplaceFrom(_, _, _)
ReplaceFrom(content, cfg, k) ==
    IF k > Len(PlaceholderOrder) THEN content
    ELSE ReplaceFrom(
             str_replace(content, PlaceholderOrder[k],
                         replacements(cfg, PlaceholderOrder[k])),
             cfg, k + 1)

replace_placeholders(content, cfg) == ReplaceFrom(content, cfg, 1)

----------------------------------------------------------------------------
(* main: the command line and the config *)

Anonymous == <<"A","n","o","n","y","m","o","u","s">>
DefaultVersion == <<"1",".","0",".","0">>

\* "b if a is None else a": the empty text is kept
PyOr_none_only(a, b) == IF a = None THEN b ELSE a

\* Python's "a or b" on an optional text: None and "" are falsy
PyOr(a, b) == IF a = None \/ a = <<>> THEN b ELSE a

\* parser.parse_args(): an option that was not given takes its default
parse_args(av) ==
    [mod_id |-> av.mod_id,
     name |-> av.name,
     namespace |-> av.namespace,
     author |-> IF av.author = None THEN Anonymous ELSE av.author,
     version |-> IF av.version = None THEN DefaultVersion ELSE av.version]

\* the config dict of main; it has no "description" key
BuildConfig(a) ==
    [mod_id |-> a.mod_id,
     mod_name |-> PyOr(a.name, a.mod_id),
     namespace |-> PyOr(a.namespace, a.mod_id),
     author |-> a.author,
     version |-> a.version]

\* mod ids of the modelled command lines
ModIds ==
    { <<"M">>,
      <<"S","u","b","M","o","d","u","l","e">>,
      <<>>,
      <<"a","/","b">> }

\* the modelled command lines
ArgvSpace ==
    [mod_id : ModIds,
     name : {None, <<>>, <<"N">>},
     namespace : {None, <<"N","s">>},
     author : {None, <<"A">>},
     version : {None, <<"2">>}]

----------------------------------------------------------------------------
(* Paths and the file tree *)

\* The current directory is the empty path.  dirs holds the directories
\* below it, files maps the path of each regular file to its text.

Slash == <<"/">>
Dot == <<".">>

IsRealComponent(c) == c # <<>> /\ c # Dot

\* pathlib's "path / text" for a relative text: the text is cut at the
\* separators, and empty and "." components are dropped
PathJoin(p, s) == p \o SelectSeq(SplitOn(s, Slash), IsRealComponent)

Parent(p) == IF p = <<>> THEN <<>> ELSE SubSeq(p, 1, Len(p) - 1)

IsDir(d, p) == p = <<>> \/ p \in d
IsFile(f, p) == p \in DOMAIN f

NoFiles == [p \in {} |-> <<>>]

Raise(d, e) == [ok |-> FALSE, dirs |-> d, err |-> e]
Made(d) == [ok |-> TRUE, dirs |-> d, err |-> ""]

\* Path.mkdir(parents=..., exist_ok=...) on the tree (d, f)
RECURSIVE mkdir(_, _, _, _, _)
mkdir(d, f, p, parents, exist_ok) ==
    IF IsDir(d, p) THEN (IF exist_ok THEN Made(d) ELSE Raise(d, "FileExistsError"))
    ELSE IF IsFile(f, p) THEN Raise(d, "FileExistsError")
    ELSE IF IsFile(f, Parent(p)) THEN Raise(d, "NotADirectoryError")
    ELSE IF ~IsDir(d, Parent(p))
         THEN IF ~parents THEN Raise(d, "FileNotFoundError")
              ELSE LET r == mkdir(d, f, Parent(p), TRUE, TRUE)
                   IN  IF r.ok THEN mkdir(r.dirs, f, p, FALSE, exist_ok) ELSE r
    ELSE Made(d \cup {p})

Wrote(f) == [ok |-> TRUE, files |-> f, err |-> ""]
WriteRaise(f, e) == [ok |-> FALSE, files |-> f, err |-> e]

\* Path.write_text(content): the file is opened for writing, which
\* truncates it, and holds exactly content afterwards
write_text_append(d, f, p, content) ==
    IF IsDir(d, p) THEN WriteRaise(f, "IsADirectoryError")
    ELSE IF IsFile(f, Parent(p)) THEN WriteRaise(f, "NotADirectoryError")
    ELSE IF ~IsDir(d, Parent(p)) THEN WriteRaise(f, "FileNotFoundError")
    ELSE Wrote([q \in DOMAIN f \cup {p} |->
                   IF q = p THEN (IF IsFile(f, p) THEN f[p] \o content ELSE content)
                   ELSE f[q]])

write_text(d, f, p, content) ==
    IF IsDir(d, p) THEN WriteRaise(f, "IsADirectoryError")
    ELSE IF IsFile(f, Parent(p)) THEN WriteRaise(f, "NotADirectoryError")
    ELSE IF ~IsDir(d, Parent(p)) THEN WriteRaise(f, "FileNotFoundError")
    ELSE Wrote([q \in DOMAIN f \cup {p} |-> IF q = p THEN content ELSE f[q]])

----------------------------------------------------------------------------
(* create_mod_structure *)

NameSubModuleCs == <<"S","u","b","M","o","d","u","l","e",".","c","s">>
NameModSettingsCs == <<"M","o","d","S","e","t","t","i","n","g","s",".","c","s">>
NameBehaviorCs == <<"B","e","h","a","v","i","o","r",".","c","s">>
NameSubModuleXml == <<"S","u","b","M","o","d","u","l","e",".","x","m","l">>
NameProjectCsproj == <<"P","r","o","j","e","c","t",".","c","s","p","r","o","j">>

TplSubModuleCs == <<"S","u","b","M","o","d","u","l","e",".","c","s",".","t","e","m","p","l","a","t","e">>
TplModSettingsCs == <<"M","o","d","S","e","t","t","i","n","g","s",".","c","s",".","t","e","m","p","l","a","t","e">>
TplCampaignBehaviorCs == <<"C","a","m","p","a","i","g","n","B","e","h","a","v","i","o","r",".","c","s",".","t","e","m","p","l","a","t","e">>
TplSubModuleXml == <<"S","u","b","M","o","d","u","l","e",".","x","m","l",".","t","e","m","p","l","a","t","e">>
TplModProjectCsproj == <<"M","o","d","P","r","o","j","e","c","t",".","c","s","p","r","o","j",".","t","e","m","p","l","a","t","e">>

\* a table one entry short
TEMPLATES_short ==
    << [output_name |-> NameSubModuleCs, template_name |-> TplSubModuleCs],
       [output_name |-> NameModSettingsCs, template_name |-> TplModSettingsCs],
       [output_name |-> NameBehaviorCs, template_name |-> TplCampaignBehaviorCs],
       [output_name |-> NameSubModuleXml, template_name |-> TplSubModuleXml] >>

\* the TEMPLATES dict, in insertion order
TEMPLATES ==
    << [output_name |-> NameSubModuleCs, template_name |-> TplSubModuleCs],
       [output_name |-> NameModSettingsCs, template_name |-> TplModSettingsCs],
       [output_name |-> NameBehaviorCs, template_name |-> TplCampaignBehaviorCs],
       [output_name |-> NameSubModuleXml, template_name |-> TplSubModuleXml],
       [output_name |-> NameProjectCsproj, template_name |-> TplModProjectCsproj] >>

TemplateNames == {TEMPLATES[k].template_name : k \in 1..Len(TEMPLATES)}

\* the texts of the template files in the templates directory
TemplateText(template_name) ==
    IF template_name = TplSubModuleCs
        THEN <<"n","s"," ">> \o TokModNamespace \o <<" ">> \o TokModId \o <<";">>
    ELSE IF template_name = TplModSettingsCs
        THEN TokModId \o <<"S",":">> \o TokModName \o <<",">> \o TokModId
    ELSE IF template_name = TplCampaignBehaviorCs
        THEN TokModNamespace \o <<".">> \o TokModId \o <<"B">>
    ELSE IF template_name = TplSubModuleXml
        THEN <<"<">> \o TokModName \o <<" ","v">> \o TokVersion \o <<" ">>
             \o TokAuthor \o <<" ">> \o TokModDescription \o <<">">>
    ELSE TokModId \o <<".","d","l","l"," ">> \o TokVersion

\* args.output, as given on the modelled command lines: "-o out"
OutputDir == << <<"o","u","t">> >>

ModDir(cfg) == PathJoin(OutputDir, cfg.mod_id)
BinDir(cfg) ==
    PathJoin(PathJoin(ModDir(cfg), <<"b","i","n">>),
             <<"W","i","n","6","4","_","S","h","i","p","p","i","n","g","_","C","l","i","e","n","t">>)
ModuleDataDir(cfg) == PathJoin(ModDir(cfg), <<"M","o","d","u","l","e","D","a","t","a">>)
SrcDir(cfg) == PathJoin(ModDir(cfg), <<"s","r","c">>)
ReadmePath(cfg) == PathJoin(ModDir(cfg), <<"R","E","A","D","M","E",".","m","d">>)

\* the four mkdir calls, in order; the first that raises ends them
CreateDirs(d, f, cfg) ==
    LET r1 == mkdir(d, f, ModDir(cfg), TRUE, TRUE)
        r2 == IF r1.ok THEN mkdir(r1.dirs, f, BinDir(cfg), TRUE, TRUE) ELSE r1
        r3 == IF r2.ok THEN mkdir(r2.dirs, f, ModuleDataDir(cfg), FALSE, TRUE) ELSE r2
    IN  IF r3.ok THEN mkdir(r3.dirs, f, SrcDir(cfg), FALSE, TRUE) ELSE r3

\* the project file written with the extension of a class file
OutPath_cs_extension(output_name, cfg) ==
    IF output_name = NameSubModuleXml THEN PathJoin(ModDir(cfg), NameSubModuleXml)
    ELSE IF output_name = NameProjectCsproj
        THEN PathJoin(SrcDir(cfg), cfg.mod_id \o <<".","c","s">>)
    ELSE IF output_name = NameBehaviorCs
        THEN PathJoin(SrcDir(cfg), cfg.mod_id \o NameBehaviorCs)
    ELSE IF output_name = NameModSettingsCs
        THEN PathJoin(SrcDir(cfg), cfg.mod_id \o <<"S","e","t","t","i","n","g","s",".","c","s">>)
    ELSE PathJoin(SrcDir(cfg), output_name)

\* the class files written under their table names, not renamed
OutPath_not_renamed(output_name, cfg) ==
    IF output_name = NameSubModuleXml THEN PathJoin(ModDir(cfg), NameSubModuleXml)
    ELSE IF output_name = NameProjectCsproj
        THEN PathJoin(SrcDir(cfg), cfg.mod_id \o <<".","c","s","p","r","o","j">>)
    ELSE PathJoin(SrcDir(cfg), output_name)

\* "Determine output path"
OutPath(output_name, cfg) ==
    IF output_name = NameSubModuleXml THEN PathJoin(ModDir(cfg), NameSubModuleXml)
    ELSE IF output_name = NameProjectCsproj
        THEN PathJoin(SrcDir(cfg), cfg.mod_id \o <<".","c","s","p","r","o","j">>)
    ELSE IF output_name = NameBehaviorCs
        THEN PathJoin(SrcDir(cfg), cfg.mod_id \o NameBehaviorCs)
    ELSE IF output_name = NameModSettingsCs
        THEN PathJoin(SrcDir(cfg), cfg.mod_id \o <<"S","e","t","t","i","n","g","s",".","c","s">>)
    ELSE PathJoin(SrcDir(cfg), output_name)

\* the backquote character, which a TLA+ string cannot hold
Backquote == "<backquote>"

\* the README f-string; each fixed stretch of text is a single element
ReadmeContent(cfg) ==
    <<"#"," ">> \o cfg.mod_name
    \o <<"\n\nA Mount & Blade II: Bannerlord mod.\n\n## Requirements\n\n- Bannerlord.Harmony\n- Bannerlord.ButterLib  \n- Bannerlord.UIExtenderEx\n- Bannerlord.MCM (Mod Configuration Menu)\n\n## Installation\n\n1. Install required dependencies from NexusMods or Steam Workshop\n2. Copy the ", Backquote>>
    \o cfg.mod_id
    \o <<Backquote, " folder to your Bannerlord ", Backquote, "Modules", Backquote, " directory\n3. Enable the mod in the launcher\n\n## Building\n\n1. Open ", Backquote, "src/">>
    \o cfg.mod_id
    \o <<".csproj", Backquote, " in Visual Studio or Rider\n2. Restore NuGet packages\n3. Build the solution\n\n## License\n\nMIT License\n">>

\* the test that lets main go on: templates_dir.exists(), skipped
templates_dir_ok_unchecked(exists) == TRUE

\* the test that lets main go on: templates_dir.exists()
templates_dir_ok(exists) == exists

\* the test of the loop, always passing
template_found_unchecked(template_name, pres) == TRUE

\* the test of the loop: template_path.exists()
template_found(template_name, pres) == template_name \in pres

----------------------------------------------------------------------------
(* SpecRP: replace_placeholders on bounded inputs *)

\* fragments a template text is put together from: the six tokens, a token
\* nested in the head of another (a later one in an earlier one and the
\* reverse), the tail of a token, and plain text
Pieces ==
    Placeholders \cup
    { <<"$","{","M","o","d","$","{","A","u","t","h","o","r","}">>,
      <<"$","{","A","u","t","h","o","r","$","{","M","o","d","I","d","}">>,
      <<"I","d","}">>,
      <<"}">>,
      <<"x">> }

RECURSIVE TextsOf(_)
TextsOf(n) ==
    IF n = 0 THEN {<<>>}
    ELSE LET shorter == TextsOf(n - 1)
         IN  shorter \cup {p \o t : p \in Pieces, t \in shorter}

Templates == TextsOf(MaxPieces)

BaseConfig ==
    [mod_id |-> <<"M">>, mod_name |-> <<"N">>, namespace |-> <<"N","s">>,
     author |-> <<"A">>, version |-> <<"1">>]

WithDescription(cfg, d) ==
    [k \in DOMAIN cfg \cup {"description"} |->
        IF k = "description" THEN d ELSE cfg[k]]

\* configs handed to replace_placeholders: plain values, with and without a
\* description, values that complete or contain a token, and configs of main
RPConfigs ==
    { BaseConfig,
      WithDescription(BaseConfig, <<"D">>),
      WithDescription(BaseConfig, TokModId),
      [BaseConfig EXCEPT !.author = <<"I","d">>],
      [BaseConfig EXCEPT !.author = <<>>],
      [BaseConfig EXCEPT !.mod_id = TokAuthor],
      [BaseConfig EXCEPT !.mod_id = <<>>],
      [BaseConfig EXCEPT !.version = TokModId],
      BuildConfig(parse_args([mod_id |-> <<"M">>, name |-> None, namespace |-> None,
                              author |-> None, version |-> None])),
      BuildConfig(parse_args([mod_id |-> <<"M">>, name |-> <<"N">>, namespace |-> None,
                              author |-> <<"A">>, version |-> <<"2">>])) }

GenIdle ==
    /\ pc = "idle"
    /\ argv = None
    /\ tdirExists = FALSE
    /\ present = {}
    /\ config = None
    /\ idx = 0
    /\ dirs = {}
    /\ files = NoFiles
    /\ dirs0 = {}
    /\ files0 = NoFiles
    /\ stdout = <<>>
    /\ crashAt = None
    /\ run = 0
    /\ snapDirs = {}
    /\ snapFiles = NoFiles

InitRP ==
    /\ GenIdle
    /\ tmpl \in Templates
    /\ rcfg \in RPConfigs
    /\ applied = {}
    /\ cur = tmpl
    /\ inOrder = TRUE

\* position of a placeholder in the code's order
OrderIndex(placeholder) ==
    CHOOSE k \in 1..Len(PlaceholderOrder) : PlaceholderOrder[k] = placeholder

\* one iteration of the loop body, "content = content.replace(placeholder, value)",
\* for a placeholder not substituted yet
ApplyOne(placeholder) ==
    /\ placeholder \notin applied
    /\ cur' = str_replace(cur, placeholder, replacements(rcfg, placeholder))
    /\ applied' = applied \cup {placeholder}
    /\ inOrder' = (inOrder /\ OrderIndex(placeholder) = Cardinality(applied) + 1)
    /\ UNCHANGED <<tmpl, rcfg>>
    /\ UNCHANGED genvars

NextRP == \E placeholder \in Placeholders : ApplyOne(placeholder)

SpecRP == InitRP /\ [][NextRP]_vars

----------------------------------------------------------------------------
(* Spec: runs of the generator *)

Old == <<"o","l","d">>

Ancestors(p) == {SubSeq(p, 1, k) : k \in 1..Len(p)}

OutputPaths(cfg) ==
    {OutPath(TEMPLATES[k].output_name, cfg) : k \in 1..Len(TEMPLATES)}
        \cup {ReadmePath(cfg)}

FsKinds == {"empty", "stale", "fileAtDir", "dirAtFile"}

\* the file tree the generator starts on:
\*   empty      nothing below the current directory
\*   stale      what an earlier generation of the same mod left, with other texts
\*   fileAtDir  a regular file where the ModuleData directory belongs
\*   dirAtFile  a directory where README.md belongs
InitialTree(kind, cfg) ==
    LET made == CreateDirs({}, NoFiles, cfg).dirs
        outs == {p \in OutputPaths(cfg) : IsDir(made, Parent(p))}
    IN  IF kind = "empty" THEN [dirs |-> {}, files |-> NoFiles]
        ELSE IF kind = "stale" THEN [dirs |-> made, files |-> [p \in outs |-> Old]]
        ELSE IF kind = "fileAtDir"
            THEN [dirs |-> Ancestors(ModDir(cfg)),
                  files |-> [p \in {ModuleDataDir(cfg)} |-> Old]]
        ELSE [dirs |-> made \cup {ReadmePath(cfg)}, files |-> NoFiles]

RPIdle ==
    /\ tmpl = <<>>
    /\ rcfg = None
    /\ applied = {}
    /\ cur = <<>>
    /\ inOrder = TRUE

Init ==
    /\ RPIdle
    /\ pc = "main"
    /\ argv \in ArgvSpace
    /\ tdirExists \in BOOLEAN
    /\ present \in SUBSET TemplateNames
    /\ ~tdirExists => present = {}
    /\ config = None
    /\ idx = 0
    /\ \E kind \in FsKinds :
          LET tree == InitialTree(kind, BuildConfig(parse_args(argv)))
          IN  /\ dirs = tree.dirs
              /\ files = tree.files
    /\ dirs0 = dirs
    /\ files0 = files
    /\ stdout = <<>>
    /\ crashAt = None
    /\ run = 1
    /\ snapDirs = {}
    /\ snapFiles = NoFiles

Printed(kind, arg) == [kind |-> kind, arg |-> arg]

\* main up to the call of create_mod_structure: the config is built, and a
\* missing templates directory ends the process with sys.exit(1)
Main ==
    /\ pc = "main"
    /\ config' = BuildConfig(parse_args(argv))
    /\ IF ~templates_dir_ok(tdirExists)
          THEN /\ stdout' = Append(stdout, Printed("Error", <<>>))
               /\ pc' = "exit1"
          ELSE /\ stdout' = stdout
               /\ pc' = "mkdirs"
    /\ UNCHANGED <<argv, tdirExists, present, idx, dirs, files, dirs0, files0,
                   crashAt, run, snapDirs, snapFiles>>
    /\ UNCHANGED rpvars

\* create_mod_structure, the mkdir calls
MakeDirectories ==
    /\ pc = "mkdirs"
    /\ LET r == CreateDirs(dirs, files, config)
       IN  /\ dirs' = r.dirs
           /\ IF r.ok
                 THEN /\ pc' = "loop"
                      /\ idx' = 1
                      /\ crashAt' = crashAt
                 ELSE /\ pc' = "crashed"
                      /\ idx' = idx
                      /\ crashAt' = <<"mkdir", r.err>>
    /\ UNCHANGED <<argv, tdirExists, present, config, files, dirs0, files0,
                   stdout, run, snapDirs, snapFiles>>
    /\ UNCHANGED rpvars

AfterEntry == IF idx = Len(TEMPLATES) THEN "readme" ELSE "loop"

\* create_mod_structure, one iteration of the loop over TEMPLATES.items()
ProcessTemplate ==
    /\ pc = "loop"
    /\ idx \in 1..Len(TEMPLATES)
    /\ LET output_name == TEMPLATES[idx].output_name
           template_name == TEMPLATES[idx].template_name
           out_path == OutPath(output_name, config)
       IN  IF ~template_found(template_name, present)
           THEN \* print the warning and continue
                /\ stdout' = Append(stdout, Printed("Warning", template_name))
                /\ pc' = AfterEntry
                /\ idx' = idx + 1
                /\ UNCHANGED <<files, crashAt>>
           ELSE IF template_name \notin present
           THEN \* read_text of a file that does not exist
                /\ pc' = "crashed"
                /\ crashAt' = <<"read_text", "FileNotFoundError">>
                /\ UNCHANGED <<files, stdout, idx>>
           ELSE LET content == replace_placeholders(TemplateText(template_name), config)
                    w == write_text(dirs, files, out_path, content)
                IN  IF w.ok
                    THEN /\ files' = w.files
                         /\ stdout' = Append(stdout, Printed("Created", out_path))
                         /\ pc' = AfterEntry
                         /\ idx' = idx + 1
                         /\ crashAt' = crashAt
                    ELSE /\ pc' = "crashed"
                         /\ crashAt' = <<"write_text", w.err>>
                         /\ UNCHANGED <<files, stdout, idx>>
    /\ UNCHANGED <<argv, tdirExists, present, config, dirs, dirs0, files0, run,
                   snapDirs, snapFiles>>
    /\ UNCHANGED rpvars

\* create_mod_structure, the README and the closing messages
WriteReadme ==
    /\ pc = "readme"
    /\ LET w == write_text(dirs, files, ReadmePath(config), ReadmeContent(config))
       IN  IF w.ok
           THEN /\ files' = w.files
                /\ stdout' = Append(stdout, Printed("Success", ModDir(config)))
                /\ pc' = "done"
                /\ crashAt' = crashAt
           ELSE /\ pc' = "crashed"
                /\ crashAt' = <<"write_text", w.err>>
                /\ UNCHANGED <<files, stdout>>
    /\ UNCHANGED <<argv, tdirExists, present, config, idx, dirs, dirs0, files0,
                   run, snapDirs, snapFiles>>
    /\ UNCHANGED rpvars

\* the generator is started again with the same command line, on the same
\* templates and on the file tree the run before left
Rerun ==
    /\ pc = "done"
    /\ run < MaxRuns
    /\ run' = run + 1
    /\ snapDirs' = dirs
    /\ snapFiles' = files
    /\ pc' = "main"
    /\ config' = None
    /\ idx' = 0
    /\ stdout' = <<>>
    /\ UNCHANGED <<argv, tdirExists, present, dirs, files, dirs0, files0, crashAt>>
    /\ UNCHANGED rpvars

Next ==
    \/ Main
    \/ MakeDirectories
    \/ ProcessTemplate
    \/ WriteReadme
    \/ Rerun

Spec == Init /\ [][Next]_vars

----------------------------------------------------------------------------
(* Properties of replace_placeholders (SpecRP) *)

\* every "$" of the text starts one of the placeholders
EveryDollarStartsToken(t) ==
    \A i \in 1..Len(t) :
        t[i] = "$" => \E p \in Placeholders : OccursAt(t, p, i)

ConfigValues(cfg) == {replacements(cfg, p) : p \in Placeholders}

NoDollarInValues(cfg) ==
    \A v \in ConfigValues(cfg) : \A i \in 1..Len(v) : v[i] # "$"

NoTokenInValues(cfg) ==
    \A v \in ConfigValues(cfg) : \A p \in Placeholders : ~Contains(v, p)

\* the text with every occurrence of a placeholder replaced by its value and
\* everything else copied: one pass from the left over the original text
RECURSIVE Simultaneous(_, _)
Simultaneous(s, cfg) ==
    IF s = <<>> THEN <<>>
    ELSE IF \E p \in Placeholders : OccursAt(s, p, 1)
         THEN LET p == CHOOSE q \in Placeholders : OccursAt(s, q, 1)
              IN  replacements(cfg, p) \o
                  Simultaneous(SubSeq(s, Len(p) + 1, Len(s)), cfg)
         ELSE <<Head(s)>> \o Simultaneous(Tail(s), cfg)

NoTokenLeft(s) == \A p \in Placeholders : ~Contains(s, p)

RECURSIVE Join(_, _)
Join(sep, parts) ==
    IF Len(parts) = 1 THEN parts[1]
    ELSE parts[1] \o sep \o Join(sep, Tail(parts))

\* C1 as stated: whatever the template text and the config, substituting the
\* six placeholders in any order gives the text the code's order gives.
C1_AnyOrderSameResult ==
    applied = Placeholders => cur = replace_placeholders(tmpl, rcfg)

\* C1 amended: when every "$" of the template text starts one of the six
\* tokens and no config value contains "$", substituting the six
\* placeholders in any order gives the text the code's order gives.
C1_OrderIndependentOnCleanInput ==
    (applied = Placeholders /\ EveryDollarStartsToken(tmpl) /\ NoDollarInValues(rcfg))
        => cur = replace_placeholders(tmpl, rcfg)

C1_Witness ==
    /\ applied = Placeholders
    /\ ~inOrder
    /\ EveryDollarStartsToken(tmpl)
    /\ NoDollarInValues(rcfg)
    /\ Contains(tmpl, TokModId)
    /\ Contains(tmpl, TokAuthor)
    /\ cur = replace_placeholders(tmpl, rcfg)
    /\ cur # tmpl

\* the loop of replace_placeholders has run to its end, in the code's order
Returned == applied = Placeholders /\ inOrder

\* C2 as stated: the result is the template text with every occurrence of a
\* token replaced by its value and all other text unchanged, and when no
\* config value contains a token the result contains no token.
C2_LiteralSubstitutionAlways ==
    Returned =>
        /\ cur = Simultaneous(tmpl, rcfg)
        /\ NoTokenInValues(rcfg) => NoTokenLeft(cur)

\* C2 amended: when every "$" of the template text starts one of the six
\* tokens and no config value contains "$", the result is the template text
\* with every occurrence of a token replaced by its value and all other text
\* unchanged, and it contains no token.
C2_LiteralSubstitutionOnCleanInput ==
    (Returned /\ EveryDollarStartsToken(tmpl) /\ NoDollarInValues(rcfg)) =>
        /\ cur = Simultaneous(tmpl, rcfg)
        /\ NoTokenLeft(cur)

C2_Witness ==
    /\ EveryDollarStartsToken(tmpl)
    /\ NoDollarInValues(rcfg)
    /\ Returned
    /\ tmpl = TokModNamespace \o TokModNamespace
    /\ cur = rcfg.namespace \o rcfg.namespace

MainConfigs == {BuildConfig(parse_args(a)) : a \in ArgvSpace}

C7_Text == <<"A"," ","B","a","n","n","e","r","l","o","r","d"," ","m","o","d">>

\* the parts of the template text around its ${ModDescription} tokens, each
\* substituted on its own, with the default text in place of each token
DefaultInPlace(t, cfg) ==
    LET parts == SplitOn(t, TokModDescription)
    IN  Join(C7_Text,
             [k \in 1..Len(parts) |-> replace_placeholders(parts[k], cfg)])

\* C7: a config built by main has no description, and with a config without
\* a description every ${ModDescription} of the template text is replaced by
\* "A Bannerlord mod" (none is left in the result).
C7_DefaultDescription ==
    /\ rcfg \in MainConfigs => "description" \notin DOMAIN rcfg
    /\ (Returned /\ "description" \notin DOMAIN rcfg) =>
          /\ cur = DefaultInPlace(tmpl, rcfg)
          /\ ~Contains(cur, TokModDescription)

C7_Witness ==
    /\ rcfg \in MainConfigs
    /\ Returned
    /\ Len(SplitOn(tmpl, TokModDescription)) = 3
    /\ cur = C7_Text \o C7_Text

----------------------------------------------------------------------------
(* Properties of the generator (Spec) *)

HasSeparator(s) == \E i \in 1..Len(s) : s[i] = "/"

PrintedArgs(kind) ==
    LET lines == SelectSeq(stdout, LAMBDA l : l.kind = kind)
    IN  [k \in 1..Len(lines) |-> lines[k].arg]

WasPrinted(kind, arg) == \E k \in 1..Len(stdout) : stdout[k] = Printed(kind, arg)

Substituted(template_name) ==
    replace_placeholders(TemplateText(template_name), config)

Holds(p, text) == IsFile(files, p) /\ files[p] = text

\* the tree the current run started on
PrevFiles == IF run = 1 THEN files0 ELSE snapFiles

\* C3: when create_mod_structure has completed with all templates present,
\* <output>/<mod_id> is a directory holding the directories
\* bin/Win64_Shipping_Client, ModuleData and src, the files SubModule.xml and
\* README.md, and in src the files SubModule.cs, <mod_id>Settings.cs,
\* <mod_id>Behavior.cs and <mod_id>.csproj; each file made from a template
\* holds the template's text after substitution.
C3_OutputLayout ==
    (pc = "done" /\ present = TemplateNames) =>
        LET id == argv.mod_id
            root == PathJoin(OutputDir, id)
            src == root \o << <<"s","r","c">> >>
        IN  /\ IsDir(dirs, root)
            /\ root \o << <<"b","i","n">> >> \in dirs
            /\ root \o << <<"b","i","n">>,
                          <<"W","i","n","6","4","_","S","h","i","p","p","i","n","g","_","C","l","i","e","n","t">> >>
                   \in dirs
            /\ root \o << <<"M","o","d","u","l","e","D","a","t","a">> >> \in dirs
            /\ src \in dirs
            /\ Holds(root \o << <<"S","u","b","M","o","d","u","l","e",".","x","m","l">> >>,
                     Substituted(TplSubModuleXml))
            /\ IsFile(files, root \o << <<"R","E","A","D","M","E",".","m","d">> >>)
            /\ Holds(src \o << <<"S","u","b","M","o","d","u","l","e",".","c","s">> >>,
                     Substituted(TplSubModuleCs))
            /\ Holds(src \o << id \o <<"S","e","t","t","i","n","g","s",".","c","s">> >>,
                     Substituted(TplModSettingsCs))
            /\ Holds(src \o << id \o <<"B","e","h","a","v","i","o","r",".","c","s">> >>,
                     Substituted(TplCampaignBehaviorCs))
            /\ Holds(src \o << id \o <<".","c","s","p","r","o","j">> >>,
                     Substituted(TplModProjectCsproj))

C3_Witness ==
    /\ pc = "done"
    /\ run = 1
    /\ present = TemplateNames
    /\ argv.mod_id = <<"S","u","b","M","o","d","u","l","e">>
    /\ dirs0 = {}
    /\ Len(PrintedArgs("Created")) = Len(TEMPLATES)

\* C4: a second run with the same command line, templates and output
\* directory does not fail, on the directories that exist or otherwise, and
\* leaves the file tree as the first run left it; a file a run writes holds
\* exactly the text written, whatever was at its path before.
C4_Idempotent ==
    /\ run >= 2 => pc # "crashed"
    /\ (run >= 2 /\ pc = "done") => (files = snapFiles /\ dirs = snapDirs)
    /\ pc = "done" =>
          /\ Holds(ReadmePath(config), ReadmeContent(config))
          /\ \A k \in 1..Len(TEMPLATES) :
                TEMPLATES[k].template_name \in present =>
                    Holds(OutPath(TEMPLATES[k].output_name, config),
                          Substituted(TEMPLATES[k].template_name))

C4_Witness ==
    /\ run = 2
    /\ pc = "done"
    /\ present = TemplateNames
    /\ IsFile(files0, ReadmePath(config))
    /\ files0[ReadmePath(config)] = Old
    /\ files = snapFiles
    /\ files # files0

\* none of the paths the run creates or writes is taken by an entry of the
\* other kind in the tree the first run started on
NoConflict ==
    LET cfg == BuildConfig(parse_args(argv))
    IN  /\ \A p \in DOMAIN files0 :
              p \notin Ancestors(BinDir(cfg)) \cup {ModuleDataDir(cfg), SrcDir(cfg)}
        /\ \A p \in OutputPaths(cfg) : p \notin dirs0

\* C5: a template that is missing is warned about and its output path is
\* left as it was, the run goes on, and it ends normally with every entry
\* whose template exists written and README.md written, whatever subset of
\* the templates is missing.  (No run fails reading a template, and a run
\* fails at all only on a mod id with a path separator or on a path taken
\* by an entry of the other kind.)
C5_MissingTemplateSkipped ==
    /\ pc = "crashed" => crashAt[1] # "read_text"
    /\ (~HasSeparator(argv.mod_id) /\ NoConflict) => pc # "crashed"
    /\ pc = "done" =>
          /\ Holds(ReadmePath(config), ReadmeContent(config))
          /\ \A k \in 1..Len(TEMPLATES) :
                LET tn == TEMPLATES[k].template_name
                    p == OutPath(TEMPLATES[k].output_name, config)
                IN  IF tn \in present
                    THEN /\ WasPrinted("Created", p)
                         /\ ~WasPrinted("Warning", tn)
                         /\ Holds(p, Substituted(tn))
                    ELSE /\ WasPrinted("Warning", tn)
                         /\ ~WasPrinted("Created", p)
                         /\ IsFile(files, p) = IsFile(PrevFiles, p)
                         /\ IsFile(files, p) => files[p] = PrevFiles[p]

C5_Witness ==
    /\ pc = "done"
    /\ run = 1
    /\ present = {TplSubModuleXml, TplModProjectCsproj}
    /\ Len(PrintedArgs("Warning")) = 3
    /\ Len(PrintedArgs("Created")) = 2
    /\ Holds(OutPath(NameBehaviorCs, config), Old)
    /\ Holds(OutPath(NameProjectCsproj, config), Substituted(TplModProjectCsproj))

\* C6: when the templates directory does not exist, main prints an error
\* and exits with status 1 without calling create_mod_structure, and the
\* file tree stays as it was.
C6_NoTemplatesDirIsFatal ==
    ~tdirExists =>
        /\ pc \in {"main", "exit1"}
        /\ dirs = dirs0
        /\ files = files0
        /\ pc = "exit1" => stdout = <<Printed("Error", <<>>)>>

C6_Witness ==
    /\ ~tdirExists
    /\ pc = "exit1"
    /\ files0 # NoFiles
    /\ files = files0

\* the entries of the table the loop has dealt with in this run
EntriesHandled == Len(PrintedArgs("Warning")) + Len(PrintedArgs("Created"))

\* C8 as stated: the table has six entries, one template file each.
C8_SixTemplateFiles ==
    pc \in {"readme", "done"} => EntriesHandled = 6

\* C8 amended: the generator works from a fixed table of five template
\* files, each entry mapping one output file to one template.
C8_FiveTemplateFiles ==
    /\ pc \in {"readme", "done"} => EntriesHandled = 5
    /\ Cardinality({TEMPLATES[k].output_name : k \in 1..Len(TEMPLATES)}) = 5
    /\ Cardinality(TemplateNames) = 5

C8_Witness ==
    /\ pc = "done"
    /\ Len(PrintedArgs("Created")) = 5
    /\ Cardinality(DOMAIN files) = 6

\* C9: in the config built by main, mod_name is --name when that is given
\* and non-empty and the mod id otherwise, namespace likewise with
\* --namespace, author is "Anonymous" and version "1.0.0" unless given.
C9_ConfigDefaults ==
    pc # "main" =>
        /\ config.mod_id = argv.mod_id
        /\ config.mod_name =
              (IF argv.name # None /\ Len(argv.name) > 0 THEN argv.name ELSE argv.mod_id)
        /\ config.namespace =
              (IF argv.namespace # None /\ Len(argv.namespace) > 0
                  THEN argv.namespace ELSE argv.mod_id)
        /\ config.author =
              (IF argv.author = None THEN <<"A","n","o","n","y","m","o","u","s">>
               ELSE argv.author)
        /\ config.version =
              (IF argv.version = None THEN <<"1",".","0",".","0">> ELSE argv.version)

C9_Witness ==
    /\ pc # "main"
    /\ argv.name = <<>>
    /\ argv.namespace = None
    /\ argv.author = None
    /\ argv.version = None
    /\ argv.mod_id = <<"S","u","b","M","o","d","u","l","e">>
    /\ config.mod_name = argv.mod_id
    /\ config.namespace = argv.mod_id

IsInjective(seq) ==
    \A i, j \in 1..Len(seq) : seq[i] = seq[j] => i = j

\* C10: for a mod id without a path separator the output paths of the
\* table's entries and of README.md are pairwise distinct, and no run
\* writes a path it has written before.
C10_DistinctOutputPaths ==
    ~HasSeparator(argv.mod_id) =>
        LET cfg == BuildConfig(parse_args(argv))
        IN  /\ Cardinality(OutputPaths(cfg)) = Len(TEMPLATES) + 1
            /\ IsInjective(PrintedArgs("Created"))
            /\ \A k \in 1..Len(PrintedArgs("Created")) :
                  PrintedArgs("Created")[k] # ReadmePath(cfg)

C10_Witness ==
    /\ pc = "done"
    /\ argv.mod_id = <<"S","u","b","M","o","d","u","l","e">>
    /\ Len(PrintedArgs("Created")) = 5
    /\ Cardinality(DOMAIN files) = 6

====
